---- MODULE Spec2Model ----
(***************************************************************************)
(* Scope (core/src/compiling/scope.rs): the per-(sub)query compilation     *)
(* context of the LQL compiler.  A Scope owns a join tree, the set of      *)
(* aliases in use, a CTE naming counter and an indentation level.          *)
(*                                                                         *)
(* Conventions.  A Rust Option<T> is a sequence of length 0 (None) or 1    *)
(* (Some); an Option<Chain> is the chain itself, <<>> being None, because  *)
(* a Chain is never empty.  Strings are TLA+ strings and format! is string *)
(* concatenation, so that "c_1" produced by suffixing "c" and the ideal    *)
(* alias "c_1" are the same string.  usize is UsizeBits wide.              *)
(***************************************************************************)
EXTENDS Integers, Sequences, FiniteSets, TLC

VARIABLES
    scopes,      \* Seq of Scope values; scopes[1] is the one made by build
    frames,      \* per scope: the indented() calls in progress (level at entry)
    status,      \* "running" | "hung" (a call that never returns) | "panicked"
    ret,         \* the last call: operation, receiver, arguments, outcome, value
    allocated,   \* history, per scope: every alias handed out by an allocator
    allocCount,  \* history, per scope: how many allocations were made
    toOne,       \* history, per scope: chain -> alias returned by
                 \* join_chain_to_one since the last take_join_tree
    removed      \* history, per scope: the aliases carried by the join
                 \* trees take_join_tree has handed out

vars == <<scopes, frames, status, ret, allocated, allocCount, toOne, removed>>

----------------------------------------------------------------------------
(* Bounds of the model *)

UsizeBits == 1
MaxScopes == 2
MaxSize == 4
MaxChainLen == 2
MaxCteIndex == 2

UsizeMax == 2^UsizeBits - 1

----------------------------------------------------------------------------
(* The schema and the path-conversion collaborator (outside scope.rs) *)

Tables == {"o", "c"}

\* schema.table_lookup as Options::resolve_identifier reads it: the names
\* that resolve, each with its table; "O" is another spelling of "o"
table_lookup == [o |-> "o", O |-> "o", c |-> "c"]

\* the names the caller may pass to build; "x" resolves to nothing
TableNames == {"o", "O", "x"}

\* get_table_by_name: resolve_identifier(&schema.table_lookup, name), then
\* the table of that id
get_table_by_name(name) ==
    IF name \in DOMAIN table_lookup THEN <<table_lookup[name]>> ELSE <<>>

\* LinkToOne values: start table, end table, schema-derived ideal alias
LinkDef ==
    [l1 |-> [start |-> "o", end |-> "c", ideal |-> "c"],
     l2 |-> [start |-> "o", end |-> "c", ideal |-> "c"],
     l3 |-> [start |-> "c", end |-> "c", ideal |-> "c"],
     l4 |-> [start |-> "c", end |-> "c", ideal |-> "a"]]

Links == DOMAIN LinkDef

get_ideal_alias_for_link_to_one(link) == LinkDef[link].ideal

RECURSIVE SeqsUpTo(_, _)
SeqsUpTo(S, n) ==
    IF n = 0 THEN {<<>>}
    ELSE LET prev == SeqsUpTo(S, n - 1)
         IN  prev \cup {Append(c, l) : c \in prev, l \in S}

\* Chain<LinkToOne>: non-empty, each link starting where the previous ends
IsChain(c) ==
    /\ Len(c) >= 1
    /\ \A i \in 1..(Len(c) - 1) : LinkDef[c[i]].end = LinkDef[c[i + 1]].start

Chains == {c \in SeqsUpTo(Links, MaxChainLen) : IsChain(c)}

ChainsFrom(table) == {c \in Chains : LinkDef[c[1]].start = table}

ChainEnd(table, chain) ==
    IF chain = <<>> THEN table ELSE LinkDef[chain[Len(chain)]].end

\* Chain<FilteredLink>: a to-many chain, with the (table, column) it starts at
ManyChainDef ==
    [m1 |-> [table |-> "o", column |-> "id"],
     m2 |-> [table |-> "c", column |-> "key"]]

ManyChains == DOMAIN ManyChainDef

\* schema.tables[table_id].columns[column_id].name of get_first_link().get_start()
StartColumnName(chain) == ManyChainDef[chain].column

Purposes == {"aggregation", "inclusion"}
FinalColumnNames == {<<>>}
CompositionLists == {<<"k1">>}
Selects == {"select1"}
ValueAliases == {"v1"}
BuildErrors == {"unsupported composition"}

Suffixes(s) == {SubSeq(s, i, Len(s)) : i \in 1..(Len(s) + 1)}

\* build_cte_select: what path-conversion may answer for these arguments;
\* it compiles in a child Scope and leaves the Scope it is given alone
build_cte_select(chain, final_column_name, compositions, purpose) ==
    {[ok |-> TRUE, select |-> s, value_alias |-> v, compositions |-> l,
      error |-> ""] :
        s \in Selects, v \in ValueAliases, l \in Suffixes(compositions)}
    \cup
    {[ok |-> FALSE, select |-> "", value_alias |-> "", compositions |-> <<>>,
      error |-> e] : e \in BuildErrors}

CTE_ALIAS_PREFIX == "cte"

\* the ideal aliases callers ask get_alias for
IdealAliases == {"c", "cte0"}

\* the base tables spawn is called with (the tables a to-many chain leads to)
SpawnTables == {"c"}

----------------------------------------------------------------------------
(* JoinTree (join_tree.rs): a tree keyed by link identity.  It is a        *)
(* function from paths (the links walked from the root) to nodes; the      *)
(* root is the path <<>> and carries the base table's name.                *)

JoinTreeNew(alias) == (<<>> :> [alias |-> alias, cte |-> <<>>])

\* format!("{}_{}", ideal_alias, suffix_index)
FormatSuffixed(ideal_alias, suffix_index) ==
    ideal_alias \o "_" \o ToString(suffix_index)

\* format!("{}{}", CTE_ALIAS_PREFIX, index)
FormatCte(index) == CTE_ALIAS_PREFIX \o ToString(index)

(* The closures Scope::integrate_chain hands to the walk.  They own the    *)
(* alias set for the duration of the walk: each takes it and answers it.  *)

\* try_alias without its test: every alias is taken to be free
try_alias_unchecked(aliases, alias) ==
    [ok |-> TRUE, aliases |-> aliases \cup {alias}]

\* integrate_chain, the try_alias closure
try_alias(aliases, alias) ==
    IF alias \notin aliases
    THEN [ok |-> TRUE, aliases |-> aliases \cup {alias}]
    ELSE [ok |-> FALSE, aliases |-> aliases]

\* integrate_chain, the get_alias closure: the suffix its loop probes after
\* suffix_index.  suffix_index is bound once, to 1, and never assigned again
closure_next_suffix(suffix_index) == suffix_index

\* integrate_chain, the get_alias closure: its loop.  When the next round
\* probes the same alias against the same set, the loop never ends
RECURSIVE closure_loop(_, _, _)
closure_loop(aliases, ideal_alias, suffix_index) ==
    LET new_alias == FormatSuffixed(ideal_alias, suffix_index)
        t == try_alias(aliases, new_alias)
    IN  IF t.ok
        THEN [hang |-> FALSE, alias |-> new_alias, aliases |-> t.aliases]
        ELSE IF closure_next_suffix(suffix_index) = suffix_index
        THEN [hang |-> TRUE, alias |-> "", aliases |-> t.aliases]
        ELSE closure_loop(t.aliases, ideal_alias,
                          closure_next_suffix(suffix_index))

\* integrate_chain, the get_alias closure
closure_get_alias(aliases, link) ==
    LET ideal_alias == get_ideal_alias_for_link_to_one(link)
        t == try_alias(aliases, ideal_alias)
    IN  IF t.ok
        THEN [hang |-> FALSE, alias |-> ideal_alias, aliases |-> t.aliases]
        ELSE closure_loop(t.aliases, ideal_alias, 1)

\* JoinTree::integrate_chain, the walk: for each link reuse the child keyed
\* by that link, or ask the callback (the get_alias closure above) for an
\* alias and create the child
RECURSIVE JoinTreeWalk(_, _, _, _)
RECURSIVE JoinTreeCreate(_, _, _, _)

\* the child for link i of `chain`, with the alias the callback answered (g)
JoinTreeCreate(tree, chain, i, g) ==
    IF g.hang
    THEN [hang |-> TRUE, tree |-> tree, aliases |-> g.aliases]
    ELSE JoinTreeWalk(
             (SubSeq(chain, 1, i) :> [alias |-> g.alias, cte |-> <<>>]) @@ tree,
             g.aliases, chain, i + 1)

JoinTreeWalk(tree, aliases, chain, i) ==
    IF i > Len(chain)
    THEN [hang |-> FALSE, tree |-> tree, aliases |-> aliases]
    ELSE IF SubSeq(chain, 1, i) \in DOMAIN tree
    THEN JoinTreeWalk(tree, aliases, chain, i + 1)
    ELSE JoinTreeCreate(tree, chain, i, closure_get_alias(aliases, chain[i]))

\* JoinTree::integrate_chain, after the walk (w): attach the CTE (if any) to
\* the node reached and answer the CTE's alias, else the node's alias
JoinTreeAttach(w, chain, cte) ==
    IF w.hang
    THEN [hang |-> TRUE, tree |-> w.tree, aliases |-> w.aliases, alias |-> ""]
    ELSE IF cte # <<>>
    THEN [hang |-> FALSE,
          tree |-> [w.tree EXCEPT ![chain].cte = cte],
          aliases |-> w.aliases,
          alias |-> cte[1].alias]
    ELSE [hang |-> FALSE, tree |-> w.tree, aliases |-> w.aliases,
          alias |-> w.tree[chain].alias]

\* JoinTree::integrate_chain(chain, get_alias, cte)
JoinTree_integrate_chain(tree, aliases, chain, cte) ==
    JoinTreeAttach(JoinTreeWalk(tree, aliases, chain, 1), chain, cte)

----------------------------------------------------------------------------
(* Scope (scope.rs) *)

\* the quoting character of build's message (a backquote in the source,
\* which a TLA+ string cannot hold)
Quote == "'"

\* build naming the tree's root as the caller spelled the table
build_rooted_at_argument(base_table_name) ==
    LET base_table == get_table_by_name(base_table_name)
    IN  IF base_table = <<>>
        THEN [ok |-> FALSE,
              error |-> "Base table " \o Quote \o base_table_name \o Quote
                            \o " does not exist."]
        ELSE [ok |-> TRUE,
              self |-> [base_table |-> base_table[1],
                        indentation_level |-> 0,
                        join_tree |-> JoinTreeNew(base_table_name),
                        aliases |-> {},
                        cte_naming_index |-> 0]]

\* Scope::build
build(base_table_name) ==
    LET base_table == get_table_by_name(base_table_name)
    IN  IF base_table = <<>>
        THEN [ok |-> FALSE,
              error |-> "Base table " \o Quote \o base_table_name \o Quote
                            \o " does not exist."]
        ELSE [ok |-> TRUE,
              self |-> [base_table |-> base_table[1],
                        indentation_level |-> 0,
                        join_tree |-> JoinTreeNew(base_table[1]),
                        aliases |-> {},
                        cte_naming_index |-> 0]]

\* take_join_tree resetting the alias set along with the tree
take_join_tree_reset(self) ==
    [self |-> [self EXCEPT !.join_tree = JoinTreeNew(self.base_table),
                           !.aliases = {}],
     tree |-> self.join_tree]

\* Scope::take_join_tree: mem::replace(&mut self.join_tree, JoinTree::new(..))
take_join_tree(self) ==
    [self |-> [self EXCEPT !.join_tree = JoinTreeNew(self.base_table)],
     tree |-> self.join_tree]

saturating_add(a, b) == IF a + b > UsizeMax THEN UsizeMax ELSE a + b
saturating_sub(a, b) == IF a - b < 0 THEN 0 ELSE a - b

\* Scope::indented, before f runs
indented_enter(self) ==
    [self EXCEPT !.indentation_level = saturating_add(self.indentation_level, 1)]

\* Scope::indented, after f returned
indented_exit(self) ==
    [self EXCEPT !.indentation_level = saturating_sub(self.indentation_level, 1)]

\* Scope::spawn.  `+ 1` on usize: at usize::MAX a build with overflow checks
\* panics and one without wraps around
spawn(self, base_table, overflow_checks) ==
    LET level == self.indentation_level + 1
    IN  IF level > UsizeMax /\ overflow_checks
        THEN [panic |-> TRUE]
        ELSE [panic |-> FALSE,
              child |-> [base_table |-> base_table,
                         indentation_level |-> level % (UsizeMax + 1),
                         join_tree |-> JoinTreeNew(base_table),
                         aliases |-> {},
                         cte_naming_index |-> 0]]

\* integrate_chain walking a copy of the tree: the nodes it made are lost
integrate_chain_restore_copy(taken, r) ==
    IF r.hang
    THEN [hang |-> TRUE, self |-> taken, alias |-> ""]
    ELSE [hang |-> FALSE, self |-> [taken EXCEPT !.aliases = r.aliases],
          alias |-> r.alias]

\* integrate_chain without `self.aliases = aliases`: the set stays moved out
integrate_chain_restore_empty(taken, r) ==
    IF r.hang
    THEN [hang |-> TRUE, self |-> [taken EXCEPT !.join_tree = r.tree],
          alias |-> ""]
    ELSE [hang |-> FALSE, self |-> [taken EXCEPT !.join_tree = r.tree],
          alias |-> r.alias]

\* Scope::integrate_chain, when the walk has returned (r): the alias set
\* goes back into the Scope, which the walk left without one (taken)
integrate_chain_restore(taken, r) ==
    IF r.hang
    THEN [hang |-> TRUE, self |-> [taken EXCEPT !.join_tree = r.tree],
          alias |-> ""]
    ELSE [hang |-> FALSE,
          self |-> [taken EXCEPT !.join_tree = r.tree, !.aliases = r.aliases],
          alias |-> r.alias]

\* Scope::integrate_chain: the alias set is moved out of the Scope
\* (mem::take) and handed to the closures for the walk
integrate_chain(self, chain, cte) ==
    integrate_chain_restore(
        [self EXCEPT !.aliases = {}],
        JoinTree_integrate_chain(self.join_tree, self.aliases, chain, cte))

\* Scope::join_chain_to_one
join_chain_to_one(self, chain) == integrate_chain(self, chain, <<>>)

\* Scope::get_alias, its loop from suffix_index on
RECURSIVE get_alias_loop(_, _, _)
get_alias_loop(self, ideal_alias, suffix_index) ==
    LET alias == IF suffix_index = 0
                 THEN ideal_alias
                 ELSE FormatSuffixed(ideal_alias, suffix_index)
    IN  IF alias \notin self.aliases
        THEN [self |-> [self EXCEPT !.aliases = self.aliases \cup {alias}],
              alias |-> alias]
        ELSE get_alias_loop(self, ideal_alias, suffix_index + 1)

\* get_alias starting at suffix 1, as the closure's loop does
get_alias_from_one(self, ideal_alias) == get_alias_loop(self, ideal_alias, 1)

\* Scope::get_alias
get_alias(self, ideal_alias) == get_alias_loop(self, ideal_alias, 0)

\* get_cte_alias advancing the counter only past a name that is in use
RECURSIVE get_cte_alias_lazy(_)
get_cte_alias_lazy(self) ==
    LET alias == FormatCte(self.cte_naming_index)
    IN  IF alias \notin self.aliases
        THEN [self |-> [self EXCEPT !.aliases = self.aliases \cup {alias}],
              alias |-> alias]
        ELSE get_cte_alias_lazy(
                 [self EXCEPT !.cte_naming_index = self.cte_naming_index + 1])

\* get_cte_alias answering a free name without recording it
RECURSIVE get_cte_alias_unrecorded(_)
get_cte_alias_unrecorded(self) ==
    LET alias == FormatCte(self.cte_naming_index)
        advanced == [self EXCEPT !.cte_naming_index = self.cte_naming_index + 1]
    IN  IF alias \notin advanced.aliases
        THEN [self |-> advanced, alias |-> alias]
        ELSE get_cte_alias_unrecorded(advanced)

\* Scope::get_cte_alias
RECURSIVE get_cte_alias(_)
get_cte_alias(self) ==
    LET alias == FormatCte(self.cte_naming_index)
        advanced == [self EXCEPT !.cte_naming_index = self.cte_naming_index + 1]
    IN  IF alias \notin advanced.aliases
        THEN [self |-> [advanced EXCEPT !.aliases = advanced.aliases \cup {alias}],
              alias |-> alias]
        ELSE get_cte_alias(advanced)

\* Scope::join_chain_to_many, its return once the CTE is integrated (r)
join_chain_to_many_return(cte_alias, built, r) ==
    IF r.hang
    THEN [hang |-> TRUE, self |-> r.self, ok |-> FALSE, error |-> ""]
    ELSE [hang |-> FALSE, self |-> r.self, ok |-> TRUE,
          value |-> [base |-> <<cte_alias, built.value_alias>>,
                     compositions |-> built.compositions]]

\* join_chain_to_many integrating the Cte with no head: at the root
join_chain_to_many_cte_at_root(a, head, chain, purpose, built) ==
    join_chain_to_many_return(
        a.alias, built,
        integrate_chain(a.self, <<>>,
                        <<[select |-> built.select,
                           alias |-> a.alias,
                           purpose |-> purpose,
                           join_column_name |-> StartColumnName(chain)]>>))

\* Scope::join_chain_to_many, from the CTE alias (a) on: build the Cte and
\* integrate it at the end of head
join_chain_to_many_cte(a, head, chain, purpose, built) ==
    join_chain_to_many_return(
        a.alias, built,
        integrate_chain(a.self, head,
                        <<[select |-> built.select,
                           alias |-> a.alias,
                           purpose |-> purpose,
                           join_column_name |-> StartColumnName(chain)]>>))

\* Scope::join_chain_to_many, given what build_cte_select answered (built)
join_chain_to_many(self, head, chain, purpose, built) ==
    IF ~built.ok
    THEN [hang |-> FALSE, self |-> self, ok |-> FALSE, error |-> built.error]
    ELSE join_chain_to_many_cte(get_cte_alias(self), head, chain, purpose,
                                built)

----------------------------------------------------------------------------
(* The state machine: one action per operation of Scope *)

\* `again`: join_chain_to_one was given a chain it has already answered
\* since the last take_join_tree
CallAgain(op, scope, args, built, outcome, value, again) ==
    [op |-> op, scope |-> scope, args |-> args, built |-> built,
     outcome |-> outcome, value |-> value, again |-> again]

Call(op, scope, args, built, outcome, value) ==
    CallAgain(op, scope, args, built, outcome, value, FALSE)

Init ==
    /\ scopes = <<>>
    /\ frames = <<>>
    /\ status = "running"
    /\ ret = Call("none", 0, <<>>, <<>>, "none", <<>>)
    /\ allocated = <<>>
    /\ allocCount = <<>>
    /\ toOne = <<>>
    /\ removed = <<>>

Live == 1..Len(scopes)

\* the aliases in use and the indented() calls in progress, over all Scopes
RECURSIVE TotalAliases(_)
TotalAliases(n) ==
    IF n = 0 THEN 0 ELSE Cardinality(scopes[n].aliases) + TotalAliases(n - 1)

RECURSIVE TotalDepth(_)
TotalDepth(n) == IF n = 0 THEN 0 ELSE Len(frames[n]) + TotalDepth(n - 1)

\* what MaxSize bounds: the aliases in use, the indented() calls in
\* progress and the spawned Scopes, together
Size == TotalAliases(Len(scopes)) + TotalDepth(Len(scopes)) + Len(scopes)

\* the nodes `new` has and `old` has not
CreatedPaths(old, new) == (DOMAIN new) \ (DOMAIN old)

\* the join nodes of a tree (all but the root), their aliases, and the
\* aliases of the CTEs attached anywhere in it
Nodes(tree) == (DOMAIN tree) \ {<<>>}

NodeAliases(tree) == {tree[p].alias : p \in Nodes(tree)}

CteAliases(tree) ==
    {tree[p].cte[1].alias : p \in {q \in DOMAIN tree : tree[q].cte # <<>>}}

Build(name) ==
    /\ status = "running"
    /\ scopes = <<>>
    /\ LET r == build(name)
       IN  IF r.ok
           THEN /\ scopes' = <<r.self>>
                /\ frames' = << <<>> >>
                /\ allocated' = << {} >>
                /\ allocCount' = << 0 >>
                /\ toOne' = << <<>> >>
                /\ removed' = << {} >>
                /\ ret' = Call("build", 1, <<name>>, <<>>, "ok", <<>>)
           ELSE /\ ret' = Call("build", 0, <<name>>, <<>>, "err", r.error)
                /\ UNCHANGED <<scopes, frames, allocated, allocCount, toOne,
                               removed>>
    /\ UNCHANGED status

TakeJoinTree(s) ==
    /\ status = "running"
    /\ s \in Live
    /\ LET r == take_join_tree(scopes[s])
       IN  /\ scopes' = [scopes EXCEPT ![s] = r.self]
           /\ ret' = Call("take_join_tree", s, <<>>, <<>>, "ok", r.tree)
    /\ toOne' = [toOne EXCEPT ![s] = <<>>]
    /\ removed' = [removed EXCEPT ![s] =
           @ \cup NodeAliases(scopes[s].join_tree)
             \cup CteAliases(scopes[s].join_tree)]
    /\ UNCHANGED <<frames, status, allocated, allocCount>>

\* indented(f): the call is entered and f starts
IndentedEnter(s) ==
    /\ status = "running"
    /\ s \in Live
    /\ Size < MaxSize
    /\ scopes' = [scopes EXCEPT ![s] = indented_enter(@)]
    /\ frames' = [frames EXCEPT ![s] = Append(@, scopes[s].indentation_level)]
    /\ ret' = Call("indented_enter", s, <<>>, <<>>, "ok", <<>>)
    /\ UNCHANGED <<status, allocated, allocCount, toOne, removed>>

\* indented(f): f returned `result`, and the call returns it
IndentedExit(s, result) ==
    /\ status = "running"
    /\ s \in Live
    /\ frames[s] # <<>>
    /\ scopes' = [scopes EXCEPT ![s] = indented_exit(@)]
    /\ frames' = [frames EXCEPT ![s] = SubSeq(@, 1, Len(@) - 1)]
    /\ ret' = Call("indented", s, <<frames[s][Len(frames[s])]>>, <<>>,
                   "ok", result)
    /\ UNCHANGED <<status, allocated, allocCount, toOne, removed>>

Spawn(p, base_table, overflow_checks) ==
    /\ status = "running"
    /\ p \in Live
    /\ Len(scopes) < MaxScopes
    /\ Size < MaxSize
    /\ LET r == spawn(scopes[p], base_table, overflow_checks)
       IN  IF r.panic
           THEN /\ status' = "panicked"
                /\ ret' = Call("spawn", p, <<base_table>>, <<>>, "panic", <<>>)
                /\ UNCHANGED <<scopes, frames, allocated, allocCount, toOne,
                               removed>>
           ELSE /\ scopes' = Append(scopes, r.child)
                /\ frames' = Append(frames, <<>>)
                /\ allocated' = Append(allocated, {})
                /\ allocCount' = Append(allocCount, 0)
                /\ toOne' = Append(toOne, <<>>)
                /\ removed' = Append(removed, {})
                /\ ret' = Call("spawn", p, <<base_table>>, <<>>, "ok",
                               Len(scopes) + 1)
                /\ UNCHANGED status

GetAlias(s, ideal_alias) ==
    /\ status = "running"
    /\ s \in Live
    /\ Size < MaxSize
    /\ LET r == get_alias(scopes[s], ideal_alias)
       IN  /\ scopes' = [scopes EXCEPT ![s] = r.self]
           /\ ret' = Call("get_alias", s, <<ideal_alias>>, <<>>, "ok", r.alias)
           /\ allocated' = [allocated EXCEPT ![s] = @ \cup {r.alias}]
           /\ allocCount' = [allocCount EXCEPT ![s] = @ + 1]
    /\ UNCHANGED <<frames, status, toOne, removed>>

\* join_chain_to_one has answered r
JoinChainToOneReturn(s, chain, r, paths) ==
    /\ Size + Cardinality(paths) <= MaxSize
    /\ scopes' = [scopes EXCEPT ![s] = r.self]
    /\ status' = IF r.hang THEN "hung" ELSE status
    /\ ret' = CallAgain("join_chain_to_one", s, <<chain>>, <<>>,
                        IF r.hang THEN "hang" ELSE "ok", r.alias,
                        chain \in DOMAIN toOne[s])
    /\ allocated' = [allocated EXCEPT ![s] =
           @ \cup {r.self.join_tree[p].alias : p \in paths}]
    /\ allocCount' = [allocCount EXCEPT ![s] = @ + Cardinality(paths)]
    /\ toOne' = IF r.hang THEN toOne
                ELSE [toOne EXCEPT ![s] = (chain :> r.alias) @@ @]
    /\ UNCHANGED <<frames, removed>>

JoinChainToOneCall(s, chain, r) ==
    JoinChainToOneReturn(s, chain, r,
                         CreatedPaths(scopes[s].join_tree, r.self.join_tree))

JoinChainToOne(s, chain) ==
    /\ status = "running"
    /\ s \in Live
    /\ chain \in ChainsFrom(scopes[s].base_table)
    /\ JoinChainToOneCall(s, chain, join_chain_to_one(scopes[s], chain))

\* join_chain_to_many has answered r, having allocated the CTE aliases `ctes`
JoinChainToManyReturn(s, args, built, r, paths, ctes) ==
    /\ Size + Cardinality(paths) + Cardinality(ctes) <= MaxSize
    /\ r.self.cte_naming_index <= MaxCteIndex
    /\ scopes' = [scopes EXCEPT ![s] = r.self]
    /\ status' = IF r.hang THEN "hung" ELSE status
    /\ ret' = Call("join_chain_to_many", s, args, <<built>>,
                   IF r.hang THEN "hang" ELSE IF r.ok THEN "ok" ELSE "err",
                   IF r.hang THEN <<>> ELSE IF r.ok THEN r.value ELSE r.error)
    /\ allocated' = [allocated EXCEPT ![s] =
           @ \cup {r.self.join_tree[p].alias : p \in paths} \cup ctes]
    /\ allocCount' = [allocCount EXCEPT ![s] =
           @ + Cardinality(paths) + Cardinality(ctes)]
    /\ UNCHANGED <<frames, toOne, removed>>

JoinChainToManyCall(s, args, built, r) ==
    JoinChainToManyReturn(
        s, args, built, r,
        CreatedPaths(scopes[s].join_tree, r.self.join_tree),
        IF built.ok
        THEN {FormatCte(r.self.cte_naming_index - 1)}
        ELSE {})

JoinChainToMany(s, head, chain, final_column_name, compositions, purpose) ==
    /\ status = "running"
    /\ s \in Live
    /\ head \in {<<>>} \cup ChainsFrom(scopes[s].base_table)
    /\ ManyChainDef[chain].table = ChainEnd(scopes[s].base_table, head)
    /\ \E built \in build_cte_select(chain, final_column_name, compositions,
                                     purpose) :
           JoinChainToManyCall(
               s, <<head, chain, compositions, purpose>>, built,
               join_chain_to_many(scopes[s], head, chain, purpose, built))

Next ==
    \/ \E name \in TableNames : Build(name)
    \/ \E s \in 1..MaxScopes : TakeJoinTree(s)
    \/ \E s \in 1..MaxScopes : IndentedEnter(s)
    \/ \E s \in 1..MaxScopes, result \in {"ok", "err"} : IndentedExit(s, result)
    \/ \E p \in 1..MaxScopes, t \in SpawnTables, oc \in BOOLEAN : Spawn(p, t, oc)
    \/ \E s \in 1..MaxScopes, a \in IdealAliases : GetAlias(s, a)
    \/ \E s \in 1..MaxScopes, c \in Chains : JoinChainToOne(s, c)
    \/ \E s \in 1..MaxScopes, h \in {<<>>} \cup Chains, m \in ManyChains,
          f \in FinalColumnNames, k \in CompositionLists, u \in Purposes :
              JoinChainToMany(s, h, m, f, k, u)

Spec == Init /\ [][Next]_vars

----------------------------------------------------------------------------
(* Properties *)

\* C1: within one Scope every newly allocated alias (a get_alias result, the
\* alias of a new join node, a CTE alias) differs from every alias allocated
\* earlier in that Scope: the allocations made so far are as many as the
\* distinct aliases handed out, and in the join tree the aliases of distinct
\* join nodes and of CTEs are pairwise distinct.
C1_AliasesDistinct ==
    \A s \in Live :
        LET t == scopes[s].join_tree
            withCte == {p \in DOMAIN t : t[p].cte # <<>>}
        IN  /\ Cardinality(allocated[s]) = allocCount[s]
            /\ \A p, q \in Nodes(t) : p # q => t[p].alias # t[q].alias
            /\ \A p \in withCte, q \in Nodes(t) :
                   t[p].cte[1].alias # t[q].alias
            /\ \A p, q \in withCte :
                   p # q => t[p].cte[1].alias # t[q].cte[1].alias

\* a Scope that handed out three aliases: to a join node, to a CTE and, last,
\* to a get_alias caller
C1_Witness ==
    /\ status = "running"
    /\ ret.op = "get_alias"
    /\ LET s == ret.scope
       IN  /\ allocCount[s] = 3
           /\ Nodes(scopes[s].join_tree) # {}
           /\ CteAliases(scopes[s].join_tree) # {}

\* C2: alias allocation always terminates: get_alias, join_chain_to_one and
\* join_chain_to_many each return, whatever aliases are in use.
C2_AllocationReturns ==
    ret.op \in {"get_alias", "join_chain_to_one", "join_chain_to_many"}
        => ret.outcome # "hang"

\* C3: join_chain_to_one called again with a chain it has answered since the
\* last take_join_tree returns the same alias, creates no node at any level
\* of the path and adds no alias.
C3_MergeIdempotent ==
    [][(ret'.op = "join_chain_to_one" /\ ret'.again) =>
          LET s == ret'.scope
              chain == ret'.args[1]
          IN  /\ ret'.outcome = "ok"
              /\ ret'.value = toOne[s][chain]
              /\ scopes'[s].join_tree = scopes[s].join_tree
              /\ scopes'[s].aliases = scopes[s].aliases
              /\ scopes'[s] = scopes[s]]_vars

\* the second call of join_chain_to_one with one two-link chain has returned
C3_Witness ==
    /\ ret.op = "join_chain_to_one"
    /\ ret.again
    /\ ret.outcome = "ok"
    /\ Len(ret.args[1]) = 2

\* C4: integrating a to-one chain after another one, with which it shares
\* its first k-1 links (these are in the tree) and not link k, reuses the
\* nodes of links 1..k-1, allocating nothing for them, and creates nodes
\* with new, distinct aliases for link k and every later link.
C4_Divergence ==
    [][(/\ ret'.op = "join_chain_to_one"
        /\ \E other \in DOMAIN toOne[ret'.scope] : other # ret'.args[1]) =>
          LET s == ret'.scope
              chain == ret'.args[1]
              old == scopes[s].join_tree
              new == scopes'[s].join_tree
              fresh == {i \in 1..Len(chain) :
                            SubSeq(chain, 1, i) \notin DOMAIN old}
              given == {new[SubSeq(chain, 1, i)].alias : i \in fresh}
          IN  /\ ret'.outcome = "ok"
              /\ \A p \in DOMAIN old : p \in DOMAIN new /\ new[p] = old[p]
              /\ \A i \in fresh : SubSeq(chain, 1, i) \in DOMAIN new
              /\ Cardinality(given) = Cardinality(fresh)
              /\ given \cap (NodeAliases(old) \cup scopes[s].aliases) = {}
              /\ scopes'[s].aliases = scopes[s].aliases \cup given]_vars

\* C5: the indentation level after indented(f) returns equals the level
\* before the call, and inside f it is one more than before the call.
C5_IndentationBalance ==
    /\ ret.op = "indented" =>
           scopes[ret.scope].indentation_level = ret.args[1]
    /\ ret.op = "indented_enter" =>
           LET s == ret.scope
           IN  scopes[s].indentation_level = frames[s][Len(frames[s])] + 1

\* C6: spawn returns a Scope with no alias, CTE counter 0, an empty tree
\* rooted at the given base table and the parent's indentation level plus
\* one; it changes nothing in the parent, and no later call on one Scope
\* changes another Scope.
C6_ChildIsolation ==
    [][/\ ret'.op = "spawn" =>
             /\ ret'.outcome = "ok"
             /\ Len(scopes') = Len(scopes) + 1
             /\ LET child == scopes'[Len(scopes')]
                    parent == scopes[ret'.scope]
                IN  /\ child.aliases = {}
                    /\ child.cte_naming_index = 0
                    /\ child.base_table = ret'.args[1]
                    /\ DOMAIN child.join_tree = {<<>>}
                    /\ child.join_tree[<<>>] =
                           [alias |-> ret'.args[1], cte |-> <<>>]
                    /\ child.indentation_level = parent.indentation_level + 1
             /\ \A i \in Live : scopes'[i] = scopes[i]
       /\ ret'.op \in {"get_alias", "join_chain_to_one", "join_chain_to_many",
                       "take_join_tree", "indented_enter", "indented"} =>
             \A i \in Live \ {ret'.scope} : scopes'[i] = scopes[i]]_vars

\* C7: when build_cte_select answers an error, join_chain_to_many returns
\* that error and leaves the Scope as it was; when it answers a SELECT,
\* join_chain_to_many returns success.
C7_ErrorPropagation ==
    [][ret'.op = "join_chain_to_many" =>
          LET s == ret'.scope
              built == ret'.built[1]
          IN  IF built.ok
              THEN ret'.outcome = "ok"
              ELSE /\ ret'.outcome = "err"
                   /\ ret'.value = built.error
                   /\ scopes'[s] = scopes[s]]_vars

\* C8: take_join_tree returns the tree accumulated so far and leaves an
\* empty tree rooted at the same base table; the alias set, the CTE counter,
\* the indentation level and the base table stay as they were, and the Scope
\* goes on running.
C8_TakeJoinTree ==
    [][ret'.op = "take_join_tree" =>
          LET s == ret'.scope
              old == scopes[s]
              new == scopes'[s]
          IN  /\ ret'.outcome = "ok"
              /\ ret'.value = old.join_tree
              /\ DOMAIN new.join_tree = {<<>>}
              /\ new.join_tree[<<>>] = [alias |-> old.base_table, cte |-> <<>>]
              /\ new.base_table = old.base_table
              /\ new.aliases = old.aliases
              /\ new.cte_naming_index = old.cte_naming_index
              /\ new.indentation_level = old.indentation_level
              /\ status' = "running"
              /\ \A i \in Live \ {s} : scopes'[i] = scopes[i]]_vars

\* a Scope whose tree was taken with joins in it has integrated a chain
\* again, into the tree left in its place
C8_Witness ==
    /\ status = "running"
    /\ ret.op = "join_chain_to_one"
    /\ ret.outcome = "ok"
    /\ removed[ret.scope] # {}
    /\ Nodes(scopes[ret.scope].join_tree) # {}
    /\ scopes[ret.scope].join_tree[<<>>].alias = scopes[ret.scope].base_table

\* the smallest k >= 1 with ideal_k not in `used`
SmallestSuffix(used, ideal) ==
    CHOOSE k \in 1..(Cardinality(used) + 1) :
        /\ FormatSuffixed(ideal, k) \notin used
        /\ \A j \in 1..(k - 1) : FormatSuffixed(ideal, j) \in used

\* C9: get_alias(ideal) returns ideal when ideal is not in use, else ideal_k
\* for the smallest k >= 1 with ideal_k not in use; exactly the returned
\* string is added to the alias set and nothing else changes.
C9_GetAlias ==
    [][ret'.op = "get_alias" =>
          LET s == ret'.scope
              ideal == ret'.args[1]
              used == scopes[s].aliases
              expected == IF ideal \notin used THEN ideal
                          ELSE FormatSuffixed(ideal, SmallestSuffix(used, ideal))
          IN  /\ ret'.outcome = "ok"
              /\ ret'.value = expected
              /\ scopes'[s] = [scopes[s] EXCEPT !.aliases = used \cup {expected}]
              /\ \A i \in Live \ {s} : scopes'[i] = scopes[i]
              /\ status' = status
              /\ frames' = frames]_vars

\* get_alias("c") has answered "c_2": "c" and "c_1" were in use
C9_Witness ==
    /\ ret.op = "get_alias"
    /\ ret.args = <<"c">>
    /\ ret.value = "c_2"

\* the smallest index >= n whose CTE name is not in `used`
FirstFreeCte(used, n) ==
    CHOOSE i \in n..(n + Cardinality(used)) :
        /\ FormatCte(i) \notin used
        /\ \A j \in n..(i - 1) : FormatCte(j) \in used

\* C10: the CTE naming counter never decreases and moves only when a CTE
\* alias is allocated; an allocation leaves it one past the index it
\* returns, which is the smallest index, from the counter's value on, whose
\* name is not in use; the alias was not in the alias set, is recorded in
\* it, and is the alias of no join node.
C10_CteNaming ==
    [][/\ \A s \in Live :
             scopes'[s].cte_naming_index >= scopes[s].cte_naming_index
       /\ \A s \in Live :
             (ret'.op = "join_chain_to_many" /\ ret'.scope = s
                  /\ ret'.built[1].ok)
             \/ scopes'[s].cte_naming_index = scopes[s].cte_naming_index
       /\ (ret'.op = "join_chain_to_many" /\ ret'.built[1].ok) =>
             LET s == ret'.scope
                 old == scopes[s]
                 new == scopes'[s]
                 index == FirstFreeCte(old.aliases, old.cte_naming_index)
                 alias == FormatCte(index)
             IN  /\ new.cte_naming_index = index + 1
                 /\ ret'.outcome = "ok" =>
                        /\ ret'.value.base[1] = alias
                        /\ alias \notin old.aliases
                        /\ alias \in new.aliases
                        /\ alias \in CteAliases(new.join_tree)
                        /\ alias \notin NodeAliases(new.join_tree)]_vars

\* a CTE was named cte1 because cte0 was in use as a table alias: the
\* counter went from 0 to 2
C10_Witness ==
    /\ ret.op = "join_chain_to_many"
    /\ ret.outcome = "ok"
    /\ ret.value.base[1] = "cte1"
    /\ scopes[ret.scope].cte_naming_index = 2
    /\ "cte0" \in scopes[ret.scope].aliases

\* C11: a join_chain_to_many call that returns success has allocated exactly
\* one CTE alias, not in use before; the node at the end of head (the root
\* when head is absent) carries a CTE Descriptor with that alias, the
\* purpose supplied, the SELECT path-conversion produced and the name of the
\* to-many chain's starting column; apart from the nodes created along head
\* the tree is as before; and the value returned has the base (that alias,
\* the value alias path-conversion produced) and exactly the compositions
\* path-conversion left over.
C11_ToManySuccess ==
    [][(ret'.op = "join_chain_to_many" /\ ret'.outcome = "ok") =>
          LET s == ret'.scope
              head == ret'.args[1]
              chain == ret'.args[2]
              purpose == ret'.args[4]
              built == ret'.built[1]
              old == scopes[s]
              new == scopes'[s]
              created == CreatedPaths(old.join_tree, new.join_tree)
              cte_alias == ret'.value.base[1]
          IN  /\ built.ok
              /\ cte_alias \notin old.aliases
              /\ cte_alias = FormatCte(new.cte_naming_index - 1)
              /\ new.aliases \ old.aliases =
                     {cte_alias} \cup {new.join_tree[p].alias : p \in created}
              /\ cte_alias \notin {new.join_tree[p].alias : p \in created}
              /\ head \in DOMAIN new.join_tree
              /\ new.join_tree[head].cte =
                     <<[select |-> built.select,
                        alias |-> cte_alias,
                        purpose |-> purpose,
                        join_column_name |-> ManyChainDef[chain].column]>>
              /\ created \subseteq {SubSeq(head, 1, i) : i \in 1..Len(head)}
              /\ \A p \in (DOMAIN old.join_tree) \ {head} :
                     p \in DOMAIN new.join_tree
                         /\ new.join_tree[p] = old.join_tree[p]
              /\ head \in DOMAIN old.join_tree =>
                     new.join_tree[head].alias = old.join_tree[head].alias
              /\ \A p \in created : new.join_tree[p].cte # <<>> => p = head
              /\ ret'.value = [base |-> <<cte_alias, built.value_alias>>,
                               compositions |-> built.compositions]]_vars

\* join_chain_to_many has returned success for a head of two links whose
\* nodes it created, with path-conversion having consumed the composition
C11_Witness ==
    /\ ret.op = "join_chain_to_many"
    /\ ret.outcome = "ok"
    /\ Len(ret.args[1]) = 2
    /\ allocCount[ret.scope] = 3
    /\ ret.value.compositions = <<>>
    /\ ret.args[3] # <<>>
    /\ scopes[ret.scope].join_tree[ret.args[1]].cte # <<>>

\* C13: build with a name that resolves to no table returns an error whose
\* message holds that name, and makes no Scope; with a name that resolves it
\* returns a Scope of indentation level 0, no alias, CTE counter 0 and a
\* tree of the root alone, named as the resolved table is.
C13_Build ==
    [][ret'.op = "build" =>
          LET name == ret'.args[1]
          IN  IF name \in DOMAIN table_lookup
              THEN /\ ret'.outcome = "ok"
                   /\ Len(scopes') = 1
                   /\ scopes'[1].base_table = table_lookup[name]
                   /\ scopes'[1].indentation_level = 0
                   /\ scopes'[1].aliases = {}
                   /\ scopes'[1].cte_naming_index = 0
                   /\ DOMAIN scopes'[1].join_tree = {<<>>}
                   /\ scopes'[1].join_tree[<<>>] =
                          [alias |-> table_lookup[name], cte |-> <<>>]
              ELSE /\ ret'.outcome = "err"
                   /\ \E before \in {"Base table " \o Quote},
                         after \in {Quote \o " does not exist."} :
                          ret'.value = before \o name \o after
                   /\ scopes' = <<>>]_vars

\* build has failed for the name "x", and there is no Scope
C13_Witness ==
    /\ ret.op = "build"
    /\ ret.outcome = "err"
    /\ ret.args = <<"x">>
    /\ scopes = <<>>

\* the Scope after a walk of `chain` from link i on that gives each node it
\* creates the alias Scope::get_alias answers for the link's ideal alias
RECURSIVE GetAliasWalk(_, _, _)
GetAliasWalk(self, chain, i) ==
    IF i > Len(chain)
    THEN self
    ELSE IF SubSeq(chain, 1, i) \in DOMAIN self.join_tree
    THEN GetAliasWalk(self, chain, i + 1)
    ELSE LET g == get_alias(self, get_ideal_alias_for_link_to_one(chain[i]))
         IN  GetAliasWalk(
                 [g.self EXCEPT !.join_tree =
                     (SubSeq(chain, 1, i) :> [alias |-> g.alias, cte |-> <<>>])
                         @@ @],
                 chain, i + 1)

\* C14: chain integration gives every join node it creates the alias
\* get_alias would answer for the link's ideal alias on the aliases in use
\* at that point (the ideal alias when free, else ideal_k for the smallest
\* free k >= 1): join_chain_to_one, and join_chain_to_many for its head once
\* the CTE alias is allocated, return with the nodes and the alias set that
\* a walk allocating through get_alias makes.
C14_NodeAliasAsGetAlias ==
    [][/\ ret'.op = "join_chain_to_one" =>
             LET s == ret'.scope
                 e == GetAliasWalk(scopes[s], ret'.args[1], 1)
             IN  /\ ret'.outcome = "ok"
                 /\ scopes'[s].join_tree = e.join_tree
                 /\ scopes'[s].aliases = e.aliases
                 /\ ret'.value = e.join_tree[ret'.args[1]].alias
       /\ (ret'.op = "join_chain_to_many" /\ ret'.built[1].ok) =>
             LET s == ret'.scope
                 head == ret'.args[1]
                 e == GetAliasWalk(get_cte_alias(scopes[s]).self, head, 1)
             IN  /\ ret'.outcome = "ok"
                 /\ DOMAIN scopes'[s].join_tree = DOMAIN e.join_tree
                 /\ \A p \in DOMAIN e.join_tree :
                        scopes'[s].join_tree[p].alias = e.join_tree[p].alias
                 /\ scopes'[s].aliases = e.aliases]_vars

\* C15: the alias set being moved out of the Scope during chain integration
\* does not show: when join_chain_to_one returns, the alias set is the set
\* before the call with the aliases of the nodes the call created, and when
\* join_chain_to_many returns success, that with the CTE alias too; and
\* every operation that returns (take_join_tree, indented and a failed
\* join_chain_to_many among them) leaves every Scope's alias set holding all
\* it held.
C15_AliasSetRestored ==
    [][/\ status' = "running" =>
             \A s \in Live : scopes[s].aliases \subseteq scopes'[s].aliases
       /\ (ret'.op = "join_chain_to_one" /\ ret'.outcome = "ok") =>
             LET s == ret'.scope
                 new == scopes'[s].join_tree
             IN  scopes'[s].aliases =
                     scopes[s].aliases \cup
                     {new[p].alias : p \in CreatedPaths(scopes[s].join_tree, new)}
       /\ (ret'.op = "join_chain_to_many" /\ ret'.outcome = "ok") =>
             LET s == ret'.scope
                 new == scopes'[s].join_tree
             IN  scopes'[s].aliases =
                     scopes[s].aliases \cup {ret'.value.base[1]} \cup
                     {new[p].alias : p \in CreatedPaths(scopes[s].join_tree, new)}
       /\ (\/ ret'.op \in {"take_join_tree", "indented_enter", "indented"}
           \/ ret'.op = "join_chain_to_many" /\ ret'.outcome = "err") =>
             scopes'[ret'.scope].aliases = scopes[ret'.scope].aliases]_vars

\* join_chain_to_one has returned having created a node, in a Scope that
\* holds two aliases no node of its tree carries
C15_Witness ==
    /\ ret.op = "join_chain_to_one"
    /\ ret.outcome = "ok"
    /\ ~ret.again
    /\ LET self == scopes[ret.scope]
       IN  /\ ret.value \in NodeAliases(self.join_tree)
           /\ Cardinality(self.aliases \ NodeAliases(self.join_tree)) = 2

\* C16: no join node and no CTE of a Scope has for alias the name the root
\* base table is referenced by (what integrate_chain returns for an absent
\* chain), whatever the ideal aliases of the links.
C16_RootNameNotAliased ==
    \A s \in Live :
        LET t == scopes[s].join_tree
        IN  t[<<>>].alias \notin NodeAliases(t) \cup CteAliases(t)

\* C17: as long as take_join_tree is not called, what was handed out stays
\* valid: after a join_chain_to_one or successful join_chain_to_many call,
\* every alias join_chain_to_one has returned for a chain is the alias of
\* the node of that chain, which is a plain table join (no CTE attached),
\* and every CTE alias the tree held before the call is still the alias of
\* a CTE Descriptor in the tree, as is the one the call returned.
C17_HandedOutStayValid ==
    [][(ret'.op \in {"join_chain_to_one", "join_chain_to_many"}
            /\ ret'.outcome = "ok") =>
          LET s == ret'.scope
              new == scopes'[s].join_tree
          IN  /\ \A chain \in DOMAIN toOne'[s] :
                     /\ chain \in DOMAIN new
                     /\ new[chain].alias = toOne'[s][chain]
                     /\ new[chain].cte = <<>>
              /\ CteAliases(scopes[s].join_tree) \subseteq CteAliases(new)
              /\ ret'.op = "join_chain_to_many" =>
                     ret'.value.base[1] \in CteAliases(new)]_vars

\* C18: between calls, every alias a join node or an attached CTE of a
\* Scope's current tree carries is in the Scope's alias set; and no alias
\* the current tree carries was carried by a tree take_join_tree removed
\* (those stay reserved: a chain integrated again gets another alias).
C18_TreeAliasesReserved ==
    \A s \in Live :
        LET t == scopes[s].join_tree
            carried == NodeAliases(t) \cup CteAliases(t)
        IN  /\ status = "running" => carried \subseteq scopes[s].aliases
            /\ status = "running" => removed[s] \subseteq scopes[s].aliases
            /\ carried \cap removed[s] = {}

\* a chain integrated again after take_join_tree has got "c_1", its node in
\* the removed tree having been "c"; the alias set holds both
C18_Witness ==
    /\ ret.op = "join_chain_to_one"
    /\ ret.outcome = "ok"
    /\ ret.value = "c_1"
    /\ "c" \in removed[ret.scope]
    /\ NodeAliases(scopes[ret.scope].join_tree) = {"c_1"}
    /\ scopes[ret.scope].aliases = {"c", "c_1"}

====
